---- MODULE Spec2Model ----
(***************************************************************************)
(* A model of aflow/keywords.py: the Keyword expression nodes, their       *)
(* comparison operators, the AND/OR combination, negation, stringification *)
(* and the module-level load and reset, for a single caller and for two   *)
(* query sessions that share the field prototypes.                         *)
(*                                                                         *)
(* Strings are sequences of characters.  A Python identifier or a word of  *)
(* letters is kept as one element (it holds none of the characters the     *)
(* code searches for or replaces); every other character is an element of  *)
(* its own.                                                                *)
(***************************************************************************)
EXTENDS Integers, Sequences, FiniteSets, TLC

VARIABLES
    nodes,          \* the Keyword instances, in order of creation
    all_keywords,   \* the module-level list _all_keywords
    target,         \* the mapping the caller hands to load
    last,           \* the most recent call: operands, value returned, error
    negrun,         \* the run of consecutive negations ending at `last`
    nops,           \* number of calls so far that wrote to a node or the registry
    hist,           \* what the calls before `last` were: see Track
    sess            \* the query sessions (threads): position and result of each

vars == <<nodes, all_keywords, target, last, negrun, nops, hist, sess>>

(* Bounds of the exploration. *)
MaxOps == 4
MaxPairOps == 5
MaxChainOps == 9
MaxStrOps == 6
MaxCmpOps == 4
MaxLoadOps == 5

(***************************************************************************)
(* Values and text                                                         *)
(***************************************************************************)

\* Keyword.name of a node built by Keyword([...]): the class attribute None.
None == << >>

\* The characters of the query grammar.
LPAREN == "("
RPAREN == ")"
STAR == "*"
QUOTE == "'"
BANG == "!"
AND_TOKEN == ","
OR_TOKEN == ":"

\* Comparison values: text (string_types), int, and float with one decimal.
TextVal(s) == [kind |-> "text", chars |-> s, n |-> 0]
IntVal(i) == [kind |-> "int", chars |-> << >>, n |-> i]
FloatVal(tenths) == [kind |-> "float", chars |-> << >>, n |-> tenths]

IsText(v) == v.kind = "text"

Digit(d) == <<"0", "1", "2", "3", "4", "5", "6", "7", "8", "9">>[d + 1]

RECURSIVE NatToStr(_)
NatToStr(i) == IF i < 10 THEN <<Digit(i)>>
               ELSE NatToStr(i \div 10) \o <<Digit(i % 10)>>

\* "{}".format(x) of a value or of a name.
FormatValue(v) ==
    CASE v.kind = "text" -> v.chars
      [] v.kind = "int" -> NatToStr(v.n)
      [] v.kind = "float" -> NatToStr(v.n \div 10) \o <<".">> \o NatToStr(v.n % 10)

FormatName(nm) == IF nm = None THEN <<"None">> ELSE nm

\* c in s
Contains(s, c) == \E i \in 1..Len(s) : s[i] = c

\* s.replace(c, r): every occurrence of the character c becomes r.
RECURSIVE Replace(_, _, _)
Replace(s, c, r) ==
    IF s = << >> THEN << >>
    ELSE (IF Head(s) = c THEN r ELSE <<Head(s)>>) \o Replace(Tail(s), c, r)

(***************************************************************************)
(* Keyword                                                                 *)
(***************************************************************************)

\* Keyword.__init__
NewKeyword(nm, st) == [name |-> nm, state |-> st, cache |-> << >>, classes |-> {nm}]

\* Keyword.__str__  (None when the fallback is the name of a composite)
Str(k) ==
    IF Len(k.state) = 1 THEN k.state[1]
    ELSE IF Len(k.cache) = 1 THEN k.cache[1]
    ELSE k.name

\* The strings the four comparison operators append.
LtText(nm, v) ==
    IF IsText(v)
    THEN FormatName(nm) \o <<LPAREN, STAR, QUOTE>> \o FormatValue(v) \o <<QUOTE, RPAREN>>
    ELSE FormatName(nm) \o <<LPAREN, STAR>> \o FormatValue(v) \o <<RPAREN>>

GtText(nm, v) ==
    IF IsText(v)
    THEN FormatName(nm) \o <<LPAREN, QUOTE>> \o FormatValue(v) \o <<QUOTE, STAR, RPAREN>>
    ELSE FormatName(nm) \o <<LPAREN>> \o FormatValue(v) \o <<STAR, RPAREN>>

ModText(nm, v) ==
    FormatName(nm) \o <<LPAREN, STAR, QUOTE>> \o FormatValue(v) \o <<QUOTE, STAR, RPAREN>>

\* Variant of EqText: the value is never quoted.
EqTextUnquoted(nm, v) ==
    FormatName(nm) \o <<LPAREN>> \o FormatValue(v) \o <<RPAREN>>

EqText(nm, v) ==
    IF IsText(v)
    THEN FormatName(nm) \o <<LPAREN, QUOTE>> \o FormatValue(v) \o <<QUOTE, RPAREN>>
    ELSE FormatName(nm) \o <<LPAREN>> \o FormatValue(v) \o <<RPAREN>>

NoRun == [node |-> 0, orig |-> << >>, before |-> << >>, cnt |-> 0]

Done(op, a, b, r, e) == [op |-> op, self |-> a, other |-> b, res |-> r, err |-> e]

\* Variant of AppendCache: the new comparison replaces the pending ones.
AppendCacheReplacing(n, op, text) ==
    /\ nodes' = [nodes EXCEPT ![n].cache = <<text>>]
    /\ last' = Done(op, n, 0, n, "none")
    /\ negrun' = NoRun
    /\ nops' = nops + 1
    /\ UNCHANGED <<all_keywords, target>>

\* Variant of AppendCache: the new comparison goes to the front of the cache.
AppendCachePrepending(n, op, text) ==
    /\ nodes' = [nodes EXCEPT ![n].cache = <<text>> \o @]
    /\ last' = Done(op, n, 0, n, "none")
    /\ negrun' = NoRun
    /\ nops' = nops + 1
    /\ UNCHANGED <<all_keywords, target>>

\* Variant of AppendCache: the composites built from the node share its
\* cache list, so the new entry shows in them too.
AppendCacheShared(n, op, text) ==
    /\ nodes' = [i \in 1..Len(nodes) |->
                    IF i = n \/ (nodes[i].name = None /\ nodes[n].classes \subseteq nodes[i].classes)
                    THEN [nodes[i] EXCEPT !.cache = Append(@, text)]
                    ELSE nodes[i]]
    /\ last' = Done(op, n, 0, n, "none")
    /\ negrun' = NoRun
    /\ nops' = nops + 1
    /\ UNCHANGED <<all_keywords, target>>

\* self.cache.append(text); return self
AppendCache(n, op, text) ==
    /\ nodes' = [nodes EXCEPT ![n].cache = Append(@, text)]
    /\ last' = Done(op, n, 0, n, "none")
    /\ negrun' = NoRun
    /\ nops' = nops + 1
    /\ UNCHANGED <<all_keywords, target>>

\* Keyword.__lt__
Lt(n, v) == AppendCache(n, "lt", LtText(nodes[n].name, v))

\* Keyword.__gt__
Gt(n, v) == AppendCache(n, "gt", GtText(nodes[n].name, v))

\* Keyword.__eq__
Eq(n, v) == AppendCache(n, "eq", EqText(nodes[n].name, v))

\* Variant of Mod: the value is formatted whatever its type.
ModUnchecked(n, v) == AppendCache(n, "mod", ModText(nodes[n].name, v))

\* Keyword.__mod__
Mod(n, v) ==
    IF IsText(v)
    THEN AppendCache(n, "mod", ModText(nodes[n].name, v))
    ELSE /\ last' = Done("mod", n, 0, 0, "AssertionError")
         /\ negrun' = NoRun
         /\ UNCHANGED <<nodes, all_keywords, target, nops>>

\* Variant of SelfCombine: the two pending comparisons are merged in the
\* reverse order.
SelfCombineSwapped(k, token) ==
    IF Len(k.cache) = 2
    THEN [err |-> "none",
          state |-> Append(k.state, k.cache[2] \o <<token>> \o k.cache[1]),
          cache |-> << >>]
    ELSE IF Len(k.cache) = 1 /\ Len(k.state) = 1
    THEN [err |-> "none",
          state |-> <<k.cache[1] \o <<token, LPAREN>> \o k.state[1] \o <<RPAREN>>>>,
          cache |-> << >>]
    ELSE IF Len(k.state) = 2
    THEN [err |-> "none",
          state |-> <<(<<LPAREN>> \o k.state[1] \o <<RPAREN, token, LPAREN>>
                       \o k.state[2] \o <<RPAREN>>)>>,
          cache |-> << >>]
    ELSE [err |-> "ValueError", state |-> k.state, cache |-> k.cache]

\* Variant of SelfCombine: the pair merge replaces state instead of
\* appending to it.
SelfCombineReplacing(k, token) ==
    IF Len(k.cache) = 2
    THEN [err |-> "none",
          state |-> <<k.cache[1] \o <<token>> \o k.cache[2]>>,
          cache |-> << >>]
    ELSE IF Len(k.cache) = 1 /\ Len(k.state) = 1
    THEN [err |-> "none",
          state |-> <<k.cache[1] \o <<token, LPAREN>> \o k.state[1] \o <<RPAREN>>>>,
          cache |-> << >>]
    ELSE IF Len(k.state) = 2
    THEN [err |-> "none",
          state |-> <<(<<LPAREN>> \o k.state[1] \o <<RPAREN, token, LPAREN>>
                       \o k.state[2] \o <<RPAREN>>)>>,
          cache |-> << >>]
    ELSE [err |-> "ValueError", state |-> k.state, cache |-> k.cache]

\* Variant of SelfCombine: the pending comparisons are dropped when the
\* buffers match no pattern.
SelfCombineDropping(k, token) ==
    IF Len(k.cache) = 2
    THEN [err |-> "none",
          state |-> Append(k.state, k.cache[1] \o <<token>> \o k.cache[2]),
          cache |-> << >>]
    ELSE IF Len(k.cache) = 1 /\ Len(k.state) = 1
    THEN [err |-> "none",
          state |-> <<k.cache[1] \o <<token, LPAREN>> \o k.state[1] \o <<RPAREN>>>>,
          cache |-> << >>]
    ELSE IF Len(k.state) = 2
    THEN [err |-> "none",
          state |-> <<(<<LPAREN>> \o k.state[1] \o <<RPAREN, token, LPAREN>>
                       \o k.state[2] \o <<RPAREN>>)>>,
          cache |-> << >>]
    ELSE [err |-> "ValueError", state |-> k.state, cache |-> << >>]

\* Variant of SelfCombine: the pending comparison is merged after the state
\* entry, which gets no parentheses.
SelfCombineStateFirst(k, token) ==
    IF Len(k.cache) = 2
    THEN [err |-> "none",
          state |-> Append(k.state, k.cache[1] \o <<token>> \o k.cache[2]),
          cache |-> << >>]
    ELSE IF Len(k.cache) = 1 /\ Len(k.state) = 1
    THEN [err |-> "none",
          state |-> <<k.state[1] \o <<token>> \o k.cache[1]>>,
          cache |-> << >>]
    ELSE IF Len(k.state) = 2
    THEN [err |-> "none",
          state |-> <<(<<LPAREN>> \o k.state[1] \o <<RPAREN, token, LPAREN>>
                       \o k.state[2] \o <<RPAREN>>)>>,
          cache |-> << >>]
    ELSE [err |-> "ValueError", state |-> k.state, cache |-> k.cache]

\* Variant of SelfCombine: two state entries are joined without parentheses.
SelfCombineBareJoin(k, token) ==
    IF Len(k.cache) = 2
    THEN [err |-> "none",
          state |-> Append(k.state, k.cache[1] \o <<token>> \o k.cache[2]),
          cache |-> << >>]
    ELSE IF Len(k.cache) = 1 /\ Len(k.state) = 1
    THEN [err |-> "none",
          state |-> <<k.cache[1] \o <<token, LPAREN>> \o k.state[1] \o <<RPAREN>>>>,
          cache |-> << >>]
    ELSE IF Len(k.state) = 2
    THEN [err |-> "none",
          state |-> <<k.state[1] \o <<token>> \o k.state[2]>>,
          cache |-> << >>]
    ELSE [err |-> "ValueError", state |-> k.state, cache |-> k.cache]

\* Keyword._generic_combine, branch `other is self`: the buffers after the
\* merge, or err = "ValueError" with the buffers as they were.
SelfCombine(k, token) ==
    IF Len(k.cache) = 2
    THEN [err |-> "none",
          state |-> Append(k.state, k.cache[1] \o <<token>> \o k.cache[2]),
          cache |-> << >>]
    ELSE IF Len(k.cache) = 1 /\ Len(k.state) = 1
    THEN [err |-> "none",
          state |-> <<k.cache[1] \o <<token, LPAREN>> \o k.state[1] \o <<RPAREN>>>>,
          cache |-> << >>]
    ELSE IF Len(k.state) = 2
    THEN [err |-> "none",
          state |-> <<(<<LPAREN>> \o k.state[1] \o <<RPAREN, token, LPAREN>>
                       \o k.state[2] \o <<RPAREN>>)>>,
          cache |-> << >>]
    ELSE [err |-> "ValueError", state |-> k.state, cache |-> k.cache]

\* Variant of Resolved: the first pending comparison stands for the node
\* whatever else it holds.
ResolvedFirstPending(k) ==
    IF Len(k.state) = 1 /\ Len(k.cache) = 0 THEN k.state[1]
    ELSE IF Len(k.cache) >= 1 THEN k.cache[1]
    ELSE None

\* The s / o of the cross branch before the separator test: the sole entry
\* of state, else the sole entry of cache, else None.
Resolved(k) ==
    IF Len(k.state) = 1 /\ Len(k.cache) = 0 THEN k.state[1]
    ELSE IF Len(k.state) = 0 /\ Len(k.cache) = 1 THEN k.cache[1]
    ELSE None

\* Variant of Parenthesize: only ',' is looked for.
ParenthesizeCommaOnly(s) ==
    IF Contains(s, AND_TOKEN) THEN <<LPAREN>> \o s \o <<RPAREN>> ELSE s

\* if ':' in s or ',' in s: s = "({})".format(s)
Parenthesize(s) ==
    IF Contains(s, OR_TOKEN) \/ Contains(s, AND_TOKEN)
    THEN <<LPAREN>> \o s \o <<RPAREN>>
    ELSE s

\* Variant of CrossCombine: the new node keeps the classes of the left
\* operand only.
CrossCombineLeftClasses(ka, kb, token) ==
    IF Resolved(ka) = None \/ Resolved(kb) = None
    THEN [err |-> "TypeError", node |-> NewKeyword(None, << >>)]
    ELSE [err |-> "none",
          node |-> [NewKeyword(None,
                       <<Parenthesize(Resolved(ka)) \o <<token>> \o Parenthesize(Resolved(kb))>>)
                    EXCEPT !.classes = ka.classes]]

\* Variant of CrossCombine: the new node gets the combined string as a
\* pending entry of its cache.
CrossCombineIntoCache(ka, kb, token) ==
    IF Resolved(ka) = None \/ Resolved(kb) = None
    THEN [err |-> "TypeError", node |-> NewKeyword(None, << >>)]
    ELSE [err |-> "none",
          node |-> [NewKeyword(None, << >>)
                    EXCEPT !.cache = <<Parenthesize(Resolved(ka)) \o <<token>>
                                       \o Parenthesize(Resolved(kb))>>,
                           !.classes = ka.classes \cup kb.classes]]

\* Keyword._generic_combine, branch `other is not self`: the new Keyword, or
\* the error of `':' in None`.
CrossCombine(ka, kb, token) ==
    IF Resolved(ka) = None \/ Resolved(kb) = None
    THEN [err |-> "TypeError", node |-> NewKeyword(None, << >>)]
    ELSE [err |-> "none",
          node |-> [NewKeyword(None,
                       <<Parenthesize(Resolved(ka)) \o <<token>> \o Parenthesize(Resolved(kb))>>)
                    EXCEPT !.classes = ka.classes \cup kb.classes]]

\* Variant of IsSame: `other == self` by value instead of `other is self`.
IsSameByValue(a, b) == nodes[a] = nodes[b]

\* `other is self`: identity of the two operands.
IsSame(a, b) == a = b

\* Variant of GenericCombine: a cross-node combination consumes the pending
\* comparisons of its two operands.
GenericCombineConsuming(a, b, token, op) ==
    IF IsSame(a, b)
    THEN LET m == SelfCombine(nodes[a], token) IN
         /\ nodes' = [nodes EXCEPT ![a].state = m.state, ![a].cache = m.cache]
         /\ last' = Done(op, a, b, IF m.err = "none" THEN a ELSE 0, m.err)
         /\ negrun' = NoRun
         /\ nops' = IF m.err = "none" THEN nops + 1 ELSE nops
         /\ UNCHANGED <<all_keywords, target>>
    ELSE LET c == CrossCombine(nodes[a], nodes[b], token) IN
         /\ nodes' = IF c.err = "none"
                     THEN Append([nodes EXCEPT ![a].cache = << >>, ![b].cache = << >>],
                                 c.node)
                     ELSE nodes
         /\ last' = Done(op, a, b, IF c.err = "none" THEN Len(nodes) + 1 ELSE 0, c.err)
         /\ negrun' = NoRun
         /\ nops' = IF c.err = "none" THEN nops + 1 ELSE nops
         /\ UNCHANGED <<all_keywords, target>>

\* Keyword._generic_combine
GenericCombine(a, b, token, op) ==
    IF IsSame(a, b)
    THEN LET m == SelfCombine(nodes[a], token) IN
         /\ nodes' = [nodes EXCEPT ![a].state = m.state, ![a].cache = m.cache]
         /\ last' = Done(op, a, b, IF m.err = "none" THEN a ELSE 0, m.err)
         /\ negrun' = NoRun
         /\ nops' = IF m.err = "none" THEN nops + 1 ELSE nops
         /\ UNCHANGED <<all_keywords, target>>
    ELSE LET c == CrossCombine(nodes[a], nodes[b], token) IN
         /\ nodes' = IF c.err = "none" THEN Append(nodes, c.node) ELSE nodes
         /\ last' = Done(op, a, b, IF c.err = "none" THEN Len(nodes) + 1 ELSE 0, c.err)
         /\ negrun' = NoRun
         /\ nops' = IF c.err = "none" THEN nops + 1 ELSE nops
         /\ UNCHANGED <<all_keywords, target>>

\* Keyword.__and__
And(a, b) == GenericCombine(a, b, AND_TOKEN, "and")

\* Variant of Or: the combination inserts the separator of AND.
OrWithComma(a, b) == GenericCombine(a, b, AND_TOKEN, "or")

\* Keyword.__or__
Or(a, b) == GenericCombine(a, b, OR_TOKEN, "or")

\* The toggle of __invert__ on one string.
InvertText(s) ==
    IF Contains(s, BANG) THEN Replace(s, BANG, << >>)
    ELSE Replace(s, LPAREN, <<LPAREN, BANG>>)

\* Variant of CanInvert: exactly one entry across state and cache.
CanInvertExactlyOne(k) == Len(k.state) + Len(k.cache) = 1

\* The assertion of __invert__.
CanInvert(k) == Len(k.state) = 1 \/ Len(k.cache) = 1

\* The node after __invert__.
Inverted(k) ==
    IF Len(k.state) = 1 THEN [k EXCEPT !.state[1] = InvertText(@)]
    ELSE IF Len(k.cache) = 1 THEN [k EXCEPT !.cache[1] = InvertText(@)]
    ELSE k

\* Keyword.__invert__
Invert(n) ==
    LET again == last.op = "invert" /\ last.err = "none" /\ last.self = n IN
    IF CanInvert(nodes[n])
    THEN /\ nodes' = [nodes EXCEPT ![n] = Inverted(@)]
         /\ last' = Done("invert", n, 0, n, "none")
         /\ negrun' = [node |-> n,
                       orig |-> IF again THEN negrun.before ELSE << >>,
                       before |-> Str(nodes[n]),
                       cnt |-> IF again THEN 2 ELSE 1]
         /\ nops' = nops + 1
         /\ UNCHANGED <<all_keywords, target>>
    ELSE /\ last' = Done("invert", n, 0, 0, "AssertionError")
         /\ negrun' = NoRun
         /\ UNCHANGED <<nodes, all_keywords, target, nops>>

\* str(k): Python raises TypeError when __str__ returns None, the name of a
\* node built by Keyword([...]).  The returned text is kept in `res`.
Stringify(n) ==
    /\ last' = IF Str(nodes[n]) = None
               THEN Done("str", n, 0, 0, "TypeError")
               ELSE Done("str", n, 0, Str(nodes[n]), "none")
    /\ negrun' = NoRun
    /\ UNCHANGED <<nodes, all_keywords, target, nops>>

\* The Keyword instances bound to module attributes, in the name order
\* inspect.getmembers lists them: the ones the module creates at import.
ModuleMembers == SelectSeq([i \in 1..Len(nodes) |-> i], LAMBDA i : nodes[i].name # None)

\* Variant of FindAll: the module is scanned on every call.
FindAllRescanning ==
    all_keywords \o [i \in 1..Len(ModuleMembers) |-> nodes[ModuleMembers[i]].name]

\* _find_all
FindAll ==
    IF Len(all_keywords) = 0
    THEN [i \in 1..Len(ModuleMembers) |-> nodes[ModuleMembers[i]].name]
    ELSE all_keywords

\* getattr(self, n)
GetAttr(nm) == CHOOSE i \in 1..Len(nodes) : nodes[i].name = nm

\* Variant of Reset: only state is cleared.
ResetStateOnly ==
    /\ all_keywords' = FindAll
    /\ nodes' = [i \in 1..Len(nodes) |->
                    IF \E j \in 1..Len(FindAll) : GetAttr(FindAll[j]) = i
                    THEN [nodes[i] EXCEPT !.state = << >>]
                    ELSE nodes[i]]
    /\ last' = Done("reset", 0, 0, 0, "none")
    /\ negrun' = NoRun
    /\ nops' = nops + 1
    /\ UNCHANGED target

\* Variant of Reset: only cache is cleared.
ResetCacheOnly ==
    /\ all_keywords' = FindAll
    /\ nodes' = [i \in 1..Len(nodes) |->
                    IF \E j \in 1..Len(FindAll) : GetAttr(FindAll[j]) = i
                    THEN [nodes[i] EXCEPT !.cache = << >>]
                    ELSE nodes[i]]
    /\ last' = Done("reset", 0, 0, 0, "none")
    /\ negrun' = NoRun
    /\ nops' = nops + 1
    /\ UNCHANGED target

\* Variant of Reset: every node is cleared, registered or not.
ResetEveryNode ==
    /\ all_keywords' = FindAll
    /\ nodes' = [i \in 1..Len(nodes) |->
                    [nodes[i] EXCEPT !.state = << >>, !.cache = << >>]]
    /\ last' = Done("reset", 0, 0, 0, "none")
    /\ negrun' = NoRun
    /\ nops' = nops + 1
    /\ UNCHANGED target

\* reset
Reset ==
    /\ all_keywords' = FindAll
    /\ nodes' = [i \in 1..Len(nodes) |->
                    IF \E j \in 1..Len(FindAll) : GetAttr(FindAll[j]) = i
                    THEN [nodes[i] EXCEPT !.state = << >>, !.cache = << >>]
                    ELSE nodes[i]]
    /\ last' = Done("reset", 0, 0, 0, "none")
    /\ negrun' = NoRun
    /\ nops' = nops + 1
    /\ UNCHANGED target

\* target[n] = cls
DictSet(d, key, val) == {p \in d : p[1] # key} \cup {<<key, val>>}

\* The loop of load over the first i names of the discovery list.
RECURSIVE LoadInto(_, _, _)
LoadInto(d, names, i) ==
    IF i = 0 THEN d
    ELSE DictSet(LoadInto(d, names, i - 1), names[i], GetAttr(names[i]))

\* load
Load ==
    /\ all_keywords' = FindAll
    /\ target' = LoadInto(target, FindAll, Len(FindAll))
    /\ last' = Done("load", 0, 0, 0, "none")
    /\ negrun' = NoRun
    /\ nops' = nops + 1
    /\ UNCHANGED nodes

\* The record of earlier calls, kept along with every call:
\*   used   the operands of a successful cross-node combination, while the
\*          only calls since are comparisons
\*   fresh  the nodes of `used` that have had exactly one comparison since
\*   loads  the number of calls of load so far (2 stands for two or more)
NoHist == [used |-> {}, fresh |-> {}, loads |-> 0]

Track ==
    hist' =
        IF last'.op \in {"and", "or"} /\ last'.err = "none" /\ last'.self # last'.other
        THEN [hist EXCEPT !.used = {last'.self, last'.other}, !.fresh = {}]
        ELSE IF last'.op \in {"lt", "gt", "mod", "eq"} /\ last'.err = "none"
        THEN IF last'.self \in hist.fresh
             THEN [hist EXCEPT !.used = hist.used \ {last'.self},
                               !.fresh = hist.fresh \ {last'.self}]
             ELSE IF last'.self \in hist.used
             THEN [hist EXCEPT !.fresh = hist.fresh \cup {last'.self}]
             ELSE hist
        ELSE IF last'.op = "load"
        THEN [hist EXCEPT !.loads = IF hist.loads < 2 THEN hist.loads + 1 ELSE 2]
        ELSE IF last'.err # "none" THEN hist
        ELSE [hist EXCEPT !.used = {}, !.fresh = {}]

(***************************************************************************)
(* Specifications                                                          *)
(***************************************************************************)

\* A single caller: no session runs beside the calls.
NoSessions == [serial |-> TRUE, pc |-> << >>, out |-> << >>]

Alone == UNCHANGED sess

Egap == <<"Egap">>
Egap_type == <<"Egap_type">>
nspecies == <<"nspecies">>

\* The state after import with the given fields declared.
InitWith(fields) ==
    /\ nodes = [i \in 1..Len(fields) |-> NewKeyword(fields[i], << >>)]
    /\ all_keywords = << >>
    /\ target = {}
    /\ last = Done("import", 0, 0, 0, "none")
    /\ hist = NoHist
    /\ negrun = NoRun
    /\ nops = 0

\* (Egap > 1.0) and (Egap_type == 'insulator'), on any node.
NumValues == {FloatVal(10)}
TextValues == {TextVal(<<"insulator">>)}

Init == InitWith(<<Egap, Egap_type>>) /\ sess = NoSessions

Next ==
    \/ \E n \in 1..Len(nodes), v \in NumValues : nops < MaxOps /\ Gt(n, v) /\ Track /\ Alone
    \/ \E n \in 1..Len(nodes), v \in TextValues : nops < MaxOps /\ Eq(n, v) /\ Track /\ Alone
    \/ \E a, b \in 1..Len(nodes) : nops < MaxOps /\ And(a, b) /\ Track /\ Alone
    \/ \E a, b \in 1..Len(nodes) : nops < MaxOps /\ Or(a, b) /\ Track /\ Alone
    \/ \E n \in 1..Len(nodes) : nops < MaxOps /\ Invert(n) /\ Track /\ Alone
    \/ nops < MaxOps /\ Reset /\ Track /\ Alone

Spec == Init /\ [][Next]_vars

\* One field narrowed repeatedly: (nspecies > 2) & (nspecies < 5) and longer.
LowValues == {IntVal(2)}
HighValues == {IntVal(5)}

InitChain == InitWith(<<nspecies>>) /\ sess = NoSessions

NextChain ==
    \/ \E n \in 1..Len(nodes), v \in LowValues : nops < MaxChainOps /\ Gt(n, v) /\ Track /\ Alone
    \/ \E n \in 1..Len(nodes), v \in HighValues : nops < MaxChainOps /\ Lt(n, v) /\ Track /\ Alone
    \/ \E a, b \in 1..Len(nodes) : nops < MaxChainOps /\ And(a, b) /\ Track /\ Alone
    \/ \E a, b \in 1..Len(nodes) : nops < MaxChainOps /\ Or(a, b) /\ Track /\ Alone
    \/ \E n \in 1..Len(nodes) : nops < MaxChainOps /\ Invert(n) /\ Track /\ Alone
    \/ nops < MaxChainOps /\ Reset /\ Track /\ Alone

SpecChain == InitChain /\ [][NextChain]_vars

\* Expressions over the two fields of (Egap > 1.0) & (Egap_type == 'insulator')
\* and over the composites built from them.
IsField(n, nm) == nodes[n].name = nm

NextPair ==
    \/ \E n \in 1..Len(nodes), v \in NumValues :
          nops < MaxPairOps /\ IsField(n, Egap) /\ Gt(n, v) /\ Track /\ Alone
    \/ \E n \in 1..Len(nodes), v \in TextValues :
          nops < MaxPairOps /\ IsField(n, Egap_type) /\ Eq(n, v) /\ Track /\ Alone
    \/ \E a, b \in 1..Len(nodes) : nops < MaxPairOps /\ And(a, b) /\ Track /\ Alone
    \/ \E a, b \in 1..Len(nodes) : nops < MaxPairOps /\ Or(a, b) /\ Track /\ Alone

SpecPair == Init /\ [][NextPair]_vars

\* Comparisons applied to the fields and to the composites built from
\* them, and str() of any node.
NextStr ==
    \/ \E n \in 1..Len(nodes), v \in NumValues :
          nops < MaxStrOps /\ nodes[n].name # Egap_type /\ Gt(n, v) /\ Track /\ Alone
    \/ \E n \in 1..Len(nodes), v \in TextValues :
          nops < MaxStrOps /\ IsField(n, Egap_type) /\ Eq(n, v) /\ Track /\ Alone
    \/ \E a, b \in 1..Len(nodes) : nops < MaxStrOps /\ And(a, b) /\ Track /\ Alone
    \/ \E n \in 1..Len(nodes) : nops <= MaxStrOps /\ Stringify(n) /\ Track /\ Alone

SpecStr == Init /\ [][NextStr]_vars

\* The four comparison operators with text, int and float values on one
\* field: Egap < 12, Egap % 'insulator', Egap == 2.5, ...
OpValues == {TextVal(<<"insulator">>), IntVal(12), FloatVal(25)}

InitOps == InitWith(<<Egap>>) /\ sess = NoSessions

NextOps ==
    \/ \E n \in 1..Len(nodes), v \in OpValues : nops < MaxCmpOps /\ Lt(n, v) /\ Track /\ Alone
    \/ \E n \in 1..Len(nodes), v \in OpValues : nops < MaxCmpOps /\ Gt(n, v) /\ Track /\ Alone
    \/ \E n \in 1..Len(nodes), v \in OpValues : nops < MaxCmpOps /\ Mod(n, v) /\ Track /\ Alone
    \/ \E n \in 1..Len(nodes), v \in OpValues : nops < MaxCmpOps /\ Eq(n, v) /\ Track /\ Alone
    \/ \E a, b \in 1..Len(nodes) : nops < MaxCmpOps /\ And(a, b) /\ Track /\ Alone
    \/ nops < MaxCmpOps /\ Reset /\ Track /\ Alone

SpecOps == InitOps /\ [][NextOps]_vars

\* load and reset between the operations of a query on the two fields.
NextRegistry ==
    \/ nops < MaxLoadOps /\ Load /\ Track /\ Alone
    \/ nops < MaxLoadOps /\ Reset /\ Track /\ Alone
    \/ \E n \in 1..Len(nodes), v \in NumValues : nops < MaxLoadOps /\ Gt(n, v) /\ Track /\ Alone
    \/ \E n \in 1..Len(nodes), v \in TextValues : nops < MaxLoadOps /\ Eq(n, v) /\ Track /\ Alone
    \/ \E a, b \in 1..Len(nodes) : nops < MaxLoadOps /\ And(a, b) /\ Track /\ Alone

SpecRegistry == Init /\ [][NextRegistry]_vars

\* Two query sessions on the shared prototype nspecies.  Each runs
\*     reset(); n > 2; n < 5; n & n  (session 2: n | n); str(n)
\* one call at a time; a call is one step, so the sessions interleave between
\* calls.  A session whose call raises ends with that error as its result.
\* With sess.serial a session starts only when the other has not started or
\* has ended.
Sessions == {1, 2}
Ended == 5

InitSessions ==
    /\ InitWith(<<nspecies>>)
    /\ sess \in {[serial |-> b, pc |-> <<0, 0>>, out |-> <<None, None>>] : b \in BOOLEAN}

MayStep(s, at) ==
    /\ sess.pc[s] = at
    /\ sess.serial => \A o \in Sessions \ {s} : sess.pc[o] \in {0, Ended}

\* The session moves on to its next call, or ends with what str() returned
\* or with the error raised.
Advance(s) ==
    sess' = IF last'.err # "none"
            THEN [sess EXCEPT !.pc[s] = Ended, !.out[s] = <<last'.err>>]
            ELSE IF sess.pc[s] = Ended - 1
            THEN [sess EXCEPT !.pc[s] = Ended, !.out[s] = last'.res]
            ELSE [sess EXCEPT !.pc[s] = @ + 1]

NextSessions ==
    \/ \E s \in Sessions : MayStep(s, 0) /\ Reset /\ Track /\ Advance(s)
    \/ \E s \in Sessions, v \in LowValues :
          MayStep(s, 1) /\ Gt(GetAttr(nspecies), v) /\ Track /\ Advance(s)
    \/ \E s \in Sessions, v \in HighValues :
          MayStep(s, 2) /\ Lt(GetAttr(nspecies), v) /\ Track /\ Advance(s)
    \/ MayStep(1, 3) /\ And(GetAttr(nspecies), GetAttr(nspecies)) /\ Track /\ Advance(1)
    \/ MayStep(2, 3) /\ Or(GetAttr(nspecies), GetAttr(nspecies)) /\ Track /\ Advance(2)
    \/ \E s \in Sessions : MayStep(s, 4) /\ Stringify(GetAttr(nspecies)) /\ Track /\ Advance(s)

SpecSessions == InitSessions /\ [][NextSessions]_vars

(***************************************************************************)
(* Properties                                                              *)
(***************************************************************************)

CombineOps == {"and", "or"}
CompareOps == {"lt", "gt", "mod", "eq"}
TokenOf(op) == IF op = "and" THEN AND_TOKEN ELSE OR_TOKEN

\* The step just taken was a combination of one node with itself / of two
\* different nodes.
SelfStep == last'.op \in CombineOps /\ last'.self = last'.other
CrossStep == last'.op \in CombineOps /\ last'.self # last'.other
AfterSelf == last.op \in CombineOps /\ last.self = last.other
AfterCross == last.op \in CombineOps /\ last.self # last.other

\* A node holds exactly one string across its two buffers; that string.
HoldsOne(k) == Len(k.state) + Len(k.cache) = 1
OnlyEntry(k) == (k.state \o k.cache)[1]

HasSeparator(s) == \E i \in 1..Len(s) : s[i] \in {",", ":"}
InParens(s) == <<"(">> \o s \o <<")">>
Embedded(s) == IF HasSeparator(s) THEN InParens(s) ELSE s

\* "Egap(1.0*),Egap_type('insulator')"
EgapExample ==
    <<"Egap", "(", "1", ".", "0", "*", ")", ",",
      "Egap_type", "(", "'", "insulator", "'", ")">>

\* "nspecies(2*),nspecies(*5)"
NspeciesExample ==
    <<"nspecies", "(", "2", "*", ")", ",", "nspecies", "(", "*", "5", ")">>

\* C1: a combination of two different nodes that each hold exactly one
\* string succeeds, and the node it returns has the one state entry
\* left + token + right (each side being the operand's string, in
\* parentheses when it holds a separator), an empty cache and the union of
\* the operands' classes.
C1_CrossResult ==
    AfterCross /\ HoldsOne(nodes[last.self]) /\ HoldsOne(nodes[last.other]) =>
        /\ last.err = "none"
        /\ last.res \in 1..Len(nodes)
        /\ nodes[last.res].state =
              <<Embedded(OnlyEntry(nodes[last.self])) \o <<TokenOf(last.op)>>
                \o Embedded(OnlyEntry(nodes[last.other]))>>
        /\ nodes[last.res].cache = << >>
        /\ nodes[last.res].classes =
              nodes[last.self].classes \cup nodes[last.other].classes

C1_Witness ==
    /\ AfterCross /\ last.op = "and" /\ last.err = "none"
    /\ Str(nodes[last.res]) = EgapExample
    /\ nodes[last.res].classes = {Egap, Egap_type}

\* C2: a self-combination of a node with exactly two pending comparisons
\* succeeds, adds the one state entry cache[0] + token + cache[1] and
\* leaves the cache empty.
C2_PairMerge ==
    [][\A n \in 1..Len(nodes) :
          SelfStep /\ last'.self = n /\ Len(nodes[n].cache) = 2 =>
             /\ last'.err = "none"
             /\ nodes'[n].state =
                   Append(nodes[n].state,
                          nodes[n].cache[1] \o <<TokenOf(last'.op)>> \o nodes[n].cache[2])
             /\ nodes'[n].cache = << >>]_vars

C2_Witness ==
    /\ AfterSelf /\ last.op = "and" /\ last.err = "none"
    /\ nodes[last.self].name = nspecies
    /\ Str(nodes[last.self]) = NspeciesExample

\* C3 (as stated): after every successful self-combination the node holds
\* exactly one state entry and an empty cache.
C3_OneEntryAfterSelf ==
    AfterSelf /\ last.err = "none" =>
        Len(nodes[last.self].state) = 1 /\ nodes[last.self].cache = << >>

\* C3 (amended): after every successful self-combination the cache is empty;
\* state holds exactly one entry, except that a merge of two pending
\* comparisons adds its entry to the ones state already held.
C3_EntriesAfterSelf ==
    [][\A n \in 1..Len(nodes) :
          SelfStep /\ last'.self = n /\ last'.err = "none" =>
             /\ nodes'[n].cache = << >>
             /\ Len(nodes'[n].state) =
                   IF Len(nodes[n].cache) = 2 THEN Len(nodes[n].state) + 1 ELSE 1]_vars

C3_Witness ==
    /\ AfterSelf /\ last.err = "none"
    /\ Len(nodes[last.self].state) = 2
    /\ nodes[last.self].cache = << >>

\* C4: a combination of a node with itself changes that node in place and
\* returns it, creating no node; a combination of two different nodes that
\* each hold exactly one string returns a node created by the call, distinct
\* from both operands, also when the operands are equal in name and buffers.
C4_IdentityDecides ==
    [][/\ SelfStep /\ last'.err = "none" =>
             /\ Len(nodes') = Len(nodes)
             /\ last'.res = last'.self
             /\ nodes'[last'.self] # nodes[last'.self]
       /\ CrossStep /\ HoldsOne(nodes[last'.self]) /\ HoldsOne(nodes[last'.other]) =>
             /\ last'.err = "none"
             /\ Len(nodes') = Len(nodes) + 1
             /\ last'.res = Len(nodes')
             /\ last'.res \notin {last'.self, last'.other}]_vars

C4_Witness ==
    /\ AfterCross /\ last.err = "none"
    /\ nodes[last.self] = nodes[last.other]
    /\ last.res \notin {last.self, last.other}

\* C5: a combination of two different nodes leaves the state, cache and
\* classes of both operands as they were.
C5_OperandsUntouched ==
    [][CrossStep =>
          /\ nodes'[last'.self] = nodes[last'.self]
          /\ nodes'[last'.other] = nodes[last'.other]]_vars

C5_Witness ==
    /\ AfterCross /\ last.err = "none"
    /\ nodes[last.self].cache # << >>
    /\ nodes[last.other].cache # << >>

\* C6: the state list of every node has at most two entries.
C6_StateAtMostTwo == \A n \in 1..Len(nodes) : Len(nodes[n].state) <= 2

\* C7 (as stated): the cache list of every node has at most two entries.
C7_CacheAtMostTwo == \A n \in 1..Len(nodes) : Len(nodes[n].cache) <= 2

\* C7 (amended): the cache of a node is not limited to two entries: it is
\* empty at creation, every successful comparison adds exactly one entry to
\* it, and every other operation leaves its length as it is or empties it.
C7_CacheGrowth ==
    [][/\ \A n \in 1..Len(nodes) :
             IF last'.op \in CompareOps /\ last'.err = "none" /\ last'.self = n
             THEN Len(nodes'[n].cache) = Len(nodes[n].cache) + 1
             ELSE Len(nodes'[n].cache) \in {Len(nodes[n].cache), 0}
       /\ \A n \in (Len(nodes) + 1)..Len(nodes') : nodes'[n].cache = << >>]_vars

C7_Witness == \E n \in 1..Len(nodes) : Len(nodes[n].cache) = 3

\* C8: after two negations in a row of one node, the node stringifies to the
\* string it had before the first of them.
C8_DoubleNegation ==
    negrun.cnt = 2 => Str(nodes[negrun.node]) = negrun.orig

\* C9 (as stated): negation fails whenever state and cache do not together
\* hold exactly one entry.
C9_FailsUnlessOneEntry ==
    [][last'.op = "invert" /\ ~HoldsOne(nodes[last'.self]) =>
          last'.err # "none"]_vars

\* C9 (amended): negation fails exactly when neither state nor cache holds
\* exactly one entry; with one entry in state it succeeds, whatever the cache
\* holds, and with one entry in cache it succeeds, whatever state holds.
C9_FailsUnlessSingleBuffer ==
    [][last'.op = "invert" =>
          (last'.err # "none" <=>
              Len(nodes[last'.self].state) # 1 /\ Len(nodes[last'.self].cache) # 1)]_vars

C9_Witness ==
    /\ last.op = "invert" /\ last.err = "none"
    /\ Len(nodes[last.self].state) = 1
    /\ Len(nodes[last.self].cache) >= 1

\* C10: in the string a cross-node combination builds, the left operand's
\* string stands in parentheses exactly when it holds ':' or ',', and so
\* does the right operand's string.
C10_ParenthesesIffSeparator ==
    AfterCross /\ last.err = "none" =>
        LET s == OnlyEntry(nodes[last.self])
            o == OnlyEntry(nodes[last.other])
            out == nodes[last.res].state[1]
            ls == IF HasSeparator(s) THEN Len(s) + 2 ELSE Len(s)
            lo == IF HasSeparator(o) THEN Len(o) + 2 ELSE Len(o)
        IN  /\ Len(out) = ls + 1 + lo
            /\ out[ls + 1] = TokenOf(last.op)
            /\ SubSeq(out, 1, ls) = (IF HasSeparator(s) THEN InParens(s) ELSE s)
            /\ SubSeq(out, ls + 2, Len(out)) = (IF HasSeparator(o) THEN InParens(o) ELSE o)

C10_Witness ==
    /\ AfterCross /\ last.err = "none"
    /\ HasSeparator(OnlyEntry(nodes[last.self]))
    /\ HasSeparator(OnlyEntry(nodes[last.other]))
    /\ Head(nodes[last.res].state[1]) = "("

\* What the combination of a and b with the given token would give from the
\* present nodes: the error, the node returned, and the nodes afterwards.
CombineOutcome(a, b, token) ==
    IF a = b
    THEN LET m == SelfCombine(nodes[a], token) IN
         [err |-> m.err, res |-> IF m.err = "none" THEN a ELSE 0,
          heap |-> [nodes EXCEPT ![a].state = m.state, ![a].cache = m.cache]]
    ELSE LET c == CrossCombine(nodes[a], nodes[b], token) IN
         [err |-> c.err, res |-> IF c.err = "none" THEN Len(nodes) + 1 ELSE 0,
          heap |-> IF c.err = "none" THEN Append(nodes, c.node) ELSE nodes]

\* The places <<i, j>> where character j of state entry i differs.
StateDiff(k1, k2) ==
    UNION {{<<i, j>> : j \in {c \in 1..Len(k1.state[i]) : k1.state[i][c] # k2.state[i][c]}} :
             i \in 1..Len(k1.state)}

\* C11: a combination with OR and the same combination with AND, from the
\* same nodes, fail with the same error or both succeed; they return the
\* same node, leave as many nodes, and every node has the same classes, the
\* same cache and as many state entries of the same lengths; the state of
\* the returned node differs in exactly one character, ',' with AND and ':'
\* with OR, and all other nodes are equal.
C11_OrLikeAnd ==
    [][last'.op \in CombineOps =>
          \E twin \in {CombineOutcome(last'.self, last'.other,
                                      IF last'.op = "and" THEN OR_TOKEN ELSE AND_TOKEN)} :
          \E withAnd \in {IF last'.op = "and" THEN nodes' ELSE twin.heap} :
          \E withOr \in {IF last'.op = "or" THEN nodes' ELSE twin.heap} :
             /\ twin.err = last'.err
             /\ twin.res = last'.res
             /\ Len(withAnd) = Len(withOr)
             /\ \A n \in 1..Len(withAnd) :
                   /\ withAnd[n].classes = withOr[n].classes
                   /\ withAnd[n].name = withOr[n].name
                   /\ withAnd[n].cache = withOr[n].cache
                   /\ Len(withAnd[n].state) = Len(withOr[n].state)
                   /\ \A i \in 1..Len(withAnd[n].state) :
                         Len(withAnd[n].state[i]) = Len(withOr[n].state[i])
                   /\ IF n = last'.res
                      THEN \E p \in StateDiff(withAnd[n], withOr[n]) :
                              /\ StateDiff(withAnd[n], withOr[n]) = {p}
                              /\ withAnd[n].state[p[1]][p[2]] = AND_TOKEN
                              /\ withOr[n].state[p[1]][p[2]] = OR_TOKEN
                      ELSE withAnd[n] = withOr[n]]_vars

\* An OR of two different nodes, the left one a composite built with AND:
\* "(Egap(1.0*),Egap_type('insulator')):..."
C11_Witness ==
    /\ AfterCross /\ last.op = "or" /\ last.err = "none"
    /\ Str(nodes[last.res])[1] = LPAREN
    /\ \E i \in 2..Len(Str(nodes[last.res])) :
          /\ Str(nodes[last.res])[i - 1] = RPAREN
          /\ Str(nodes[last.res])[i] = OR_TOKEN
    /\ Contains(Str(nodes[last.res]), AND_TOKEN)

\* C12: str() of a node returns the one state entry when state has exactly
\* one entry, otherwise the one cache entry when cache has exactly one entry,
\* otherwise the field name of the node.
C12_Stringification ==
    last.op = "str" =>
        /\ last.err = "none"
        /\ last.res = IF Len(nodes[last.self].state) = 1 THEN nodes[last.self].state[1]
                      ELSE IF Len(nodes[last.self].cache) = 1 THEN nodes[last.self].cache[1]
                      ELSE nodes[last.self].name

\* C13: a successful comparison (<, >, %, ==) adds exactly one string at the
\* end of the cache of its node, leaves the earlier cache entries, the state
\* and the classes of the node and every other node as they were, creates no
\* node, and returns the node it was applied to.
C13_ComparisonAppends ==
    [][\A n \in 1..Len(nodes) :
          last'.op \in CompareOps /\ last'.err = "none" /\ last'.self = n =>
             /\ Len(nodes'[n].cache) = Len(nodes[n].cache) + 1
             /\ SubSeq(nodes'[n].cache, 1, Len(nodes[n].cache)) = nodes[n].cache
             /\ nodes'[n].state = nodes[n].state
             /\ nodes'[n].classes = nodes[n].classes
             /\ nodes'[n].name = nodes[n].name
             /\ last'.res = n
             /\ Len(nodes') = Len(nodes)
             /\ \A o \in 1..Len(nodes) : o # n => nodes'[o] = nodes[o]]_vars

\* A contains comparison that came third on a node: three different pending
\* comparisons, the new one last.
C13_Witness ==
    /\ last.op = "mod" /\ last.err = "none"
    /\ Len(nodes[last.self].cache) = 3
    /\ nodes[last.self].cache[1] # nodes[last.self].cache[2]
    /\ nodes[last.self].cache[3] \notin {nodes[last.self].cache[1], nodes[last.self].cache[2]}
    /\ nodes[last.self].cache[3] = ModText(Egap, TextVal(<<"insulator">>))

\* The values of OpValues as they read inside a comparison: 'insulator',
\* 12 and 2.5.
Shown(v) ==
    CASE v = TextVal(<<"insulator">>) -> <<"'", "insulator", "'">>
      [] v = IntVal(12) -> <<"1", "2">>
      [] v = FloatVal(25) -> <<"2", ".", "5">>

\* C14: the string a comparison of the field n with the value v appends is
\* n(*v) for <, n(v*) for >, n(*v*) for % and n(v) for ==, v in single
\* quotes when it is text and bare otherwise; on a node with empty state and
\* cache, str() after n == v is that n(v).
C14_ComparisonText ==
    [][\A n \in 1..Len(nodes), v \in OpValues :
          LET added == nodes'[n].cache[Len(nodes'[n].cache)] IN
          /\ Lt(n, v) => added = nodes[n].name \o <<"(", "*">> \o Shown(v) \o <<")">>
          /\ Gt(n, v) => added = nodes[n].name \o <<"(">> \o Shown(v) \o <<"*", ")">>
          /\ Mod(n, v) /\ last'.err = "none" =>
                added = nodes[n].name \o <<"(", "*">> \o Shown(v) \o <<"*", ")">>
          /\ Eq(n, v) =>
                /\ added = nodes[n].name \o <<"(">> \o Shown(v) \o <<")">>
                /\ nodes[n].state = << >> /\ nodes[n].cache = << >> =>
                      Str(nodes'[n]) = nodes[n].name \o <<"(">> \o Shown(v) \o <<")">>]_vars

\* Egap == 'insulator' on the fresh field: "Egap('insulator')".
C14_Witness ==
    /\ last.op = "eq" /\ nops = 1
    /\ Str(nodes[last.self]) = <<"Egap", "(", "'", "insulator", "'", ")">>

\* The buffer lengths a combination of a node with itself accepts.
SelfPattern(k) ==
    \/ Len(k.cache) = 2
    \/ Len(k.cache) = 1 /\ Len(k.state) = 1
    \/ Len(k.state) = 2

\* C15: a combination of a node with itself whose buffers match none of the
\* three patterns raises ValueError (the inconsistent-operators error),
\* returns nothing and leaves every node, its state and cache, as it was.
C15_InconsistentFails ==
    [][\A n \in 1..Len(nodes) :
          SelfStep /\ last'.self = n /\ ~SelfPattern(nodes[n]) =>
             /\ last'.err = "ValueError"
             /\ last'.res = 0
             /\ nodes' = nodes]_vars

\* n & n with three pending comparisons and no state entry failed.
C15_Witness ==
    /\ AfterSelf /\ last.err = "ValueError"
    /\ Len(nodes[last.self].cache) = 3
    /\ nodes[last.self].state = << >>

\* A node that reduces to one resolved string: one state entry and an empty
\* cache, or one cache entry and an empty state.
Reducible(k) ==
    \/ Len(k.state) = 1 /\ Len(k.cache) = 0
    \/ Len(k.state) = 0 /\ Len(k.cache) = 1

\* C16: a combination of two different nodes of which one does not reduce
\* to one resolved string fails: it returns no node, creates none, and
\* leaves every node as it was.
C16_UnresolvedFails ==
    [][CrossStep /\ (~Reducible(nodes[last'.self]) \/ ~Reducible(nodes[last'.other])) =>
          /\ last'.err # "none"
          /\ last'.res = 0
          /\ nodes' = nodes]_vars

\* A failed combination of a node holding two pending comparisons with a
\* node holding one.
C16_Witness ==
    /\ AfterCross /\ last.err # "none"
    /\ Len(nodes[last.self].cache) = 2 /\ nodes[last.self].state = << >>
    /\ Reducible(nodes[last.other])

\* C17: n % v with a value v that is not text raises the error of the type
\* check (AssertionError), returns nothing, and leaves every node, its cache
\* and state, as it was.
C17_ContainsNeedsText ==
    [][\A n \in 1..Len(nodes), v \in OpValues :
          ~IsText(v) /\ Mod(n, v) =>
             /\ last'.op = "mod" /\ last'.self = n
             /\ last'.err = "AssertionError"
             /\ last'.res = 0
             /\ nodes' = nodes]_vars

\* A failed % on a node that holds two pending comparisons.
C17_Witness ==
    /\ last.op = "mod" /\ last.err = "AssertionError"
    /\ nodes[last.self].state = << >>
    /\ Len(nodes[last.self].cache) = 2

\* C18: after reset(), whatever came before, every field prototype is
\* registered in the discovery list, has an empty state and an empty cache,
\* and stringifies to its field name.
C18_ResetClears ==
    last.op = "reset" =>
        \A n \in 1..Len(nodes) :
            nodes[n].name # None =>
                /\ \E i \in 1..Len(all_keywords) : all_keywords[i] = nodes[n].name
                /\ nodes[n].state = << >>
                /\ nodes[n].cache = << >>
                /\ Str(nodes[n]) = nodes[n].name

\* reset() after both fields were compared and combined into a composite,
\* which keeps its string.
C18_Witness ==
    /\ last.op = "reset"
    /\ \E c \in 1..Len(nodes) : nodes[c].name = None /\ Str(nodes[c]) = EgapExample

\* C19: a field prototype that was an operand of a successful combination
\* of two different nodes and has had exactly one comparison since (no reset
\* in between) can be an operand of a further such combination, with a
\* reducible node on the other side: the call succeeds, and the prototype's
\* side of the new composite is the new comparison alone.
C19_ReuseAfterCross ==
    [][\A x \in hist.fresh :
          /\ CrossStep /\ x \in {last'.self, last'.other}
          /\ nodes[x].name # None
          /\ \A o \in {last'.self, last'.other} \ {x} : Reducible(nodes[o])
          => /\ last'.err = "none"
             /\ last'.res \in 1..Len(nodes')
             /\ LET new == nodes[x].cache[Len(nodes[x].cache)]
                    side(o) == IF o = x THEN new ELSE Embedded(OnlyEntry(nodes[o]))
                IN nodes'[last'.res].state =
                      <<side(last'.self) \o <<TokenOf(last'.op)>> \o side(last'.other)>>]_vars

\* The field prototypes by name: what a mapping holds after load.
Prototypes == {<<nodes[n].name, n>> : n \in {i \in 1..Len(nodes) : nodes[i].name # None}}

\* C20: load binds every field name to its prototype node and leaves each
\* field name once in the discovery list; a load that is not the first,
\* whatever resets and node operations came in between, leaves the mapping
\* and the discovery list as they were.
C20_LoadIdempotent ==
    [][last'.op = "load" =>
          /\ target' = Prototypes
          /\ \A i, j \in 1..Len(all_keywords') :
                all_keywords'[i] = all_keywords'[j] => i = j
          /\ {all_keywords'[i] : i \in 1..Len(all_keywords')} = {p[1] : p \in Prototypes}
          /\ hist.loads >= 1 => target' = target /\ all_keywords' = all_keywords]_vars

\* A second load, after a comparison on a field.
C20_Witness ==
    /\ last.op = "load" /\ hist.loads = 2
    /\ \E n \in 1..Len(nodes) : nodes[n].name # None /\ nodes[n].cache # << >>
    /\ Cardinality(target) = 2

\* C21: a combination of a node with itself, when the node holds exactly one
\* pending comparison and exactly one state entry, succeeds and leaves the
\* one state entry cache[0] + token + "(" + state[0] + ")" and an empty
\* cache.
C21_PendingWithSettled ==
    [][\A n \in 1..Len(nodes) :
          SelfStep /\ last'.self = n
          /\ Len(nodes[n].cache) = 1 /\ Len(nodes[n].state) = 1 =>
             /\ last'.err = "none"
             /\ last'.res = n
             /\ nodes'[n].state =
                   <<nodes[n].cache[1] \o <<TokenOf(last'.op), "(">>
                     \o nodes[n].state[1] \o <<")">>>>
             /\ nodes'[n].cache = << >>]_vars

\* "nspecies(*5):(nspecies(2*),nspecies(*5))"
C21_Witness ==
    /\ AfterSelf /\ last.op = "or" /\ last.err = "none"
    /\ nodes[last.self].state =
          <<(<<"nspecies", "(", "*", "5", ")", ":", "(">> \o NspeciesExample \o <<")">>)>>
    /\ nodes[last.self].cache = << >>

\* C22: a combination of a node with itself, when the node holds exactly two
\* state entries and an empty cache, succeeds and leaves the one state entry
\* "(" + state[0] + ")" + token + "(" + state[1] + ")"; two pair merges on
\* one node give such a state.
C22_TwoSettled ==
    [][\A n \in 1..Len(nodes) :
          SelfStep /\ last'.self = n
          /\ Len(nodes[n].state) = 2 /\ nodes[n].cache = << >> =>
             /\ last'.err = "none"
             /\ last'.res = n
             /\ nodes'[n].state =
                   <<(<<"(">> \o nodes[n].state[1] \o <<")", TokenOf(last'.op), "(">>
                      \o nodes[n].state[2] \o <<")">>)>>
             /\ nodes'[n].cache = << >>]_vars

\* ((n > 2) & (n < 5)) | ((n > 2) & (n < 5)):
\* "(nspecies(2*),nspecies(*5)):(nspecies(2*),nspecies(*5))"
C22_Witness ==
    /\ AfterSelf /\ last.op = "or" /\ last.err = "none" /\ nops = 7
    /\ nodes[last.self].state =
          <<(<<"(">> \o NspeciesExample \o <<")", ":", "(">> \o NspeciesExample \o <<")">>)>>
    /\ nodes[last.self].cache = << >>

\* The string a negation works on: the one state entry, else the one cache
\* entry.
NegTarget(k) == IF Len(k.state) = 1 THEN k.state[1] ELSE k.cache[1]

\* An opening parenthesis of a comparison follows a field name; one that a
\* combination put around an operand starts the string or follows a
\* separator or another parenthesis.
ComparisonParen(s, i) ==
    s[i] = "(" /\ i > 1 /\ s[i - 1] \notin {"(", ")", ",", ":", "!", "*", "'", "."}

\* C23: a successful negation of a node whose string carries no marker
\* puts '!' right after the opening parenthesis of every comparison and
\* nowhere else, in particular not after a parenthesis that encloses an
\* operand of a combination; a negation of a string that carries the marker
\* leaves no marker in it.
C23_MarkerAtComparisons ==
    [][\A n \in 1..Len(nodes) :
          last'.op = "invert" /\ last'.err = "none" /\ last'.self = n =>
             IF Contains(NegTarget(nodes[n]), "!")
             THEN ~Contains(NegTarget(nodes'[n]), "!")
             ELSE /\ \A i \in 1..Len(NegTarget(nodes'[n])) :
                        NegTarget(nodes'[n])[i] = "!" =>
                           i > 1 /\ ComparisonParen(NegTarget(nodes'[n]), i - 1)
                  /\ \A i \in 1..(Len(NegTarget(nodes'[n])) - 1) :
                        ComparisonParen(NegTarget(nodes'[n]), i) =>
                           NegTarget(nodes'[n])[i + 1] = "!"]_vars

\* What a session obtains when its calls run alone:
\* "nspecies(2*),nspecies(*5)" for session 1, with ':' for session 2.
StandAlone(s) ==
    <<"nspecies", "(", "2", "*", ")", IF s = 1 THEN "," ELSE ":",
      "nspecies", "(", "*", "5", ")">>

\* C24: sessions that run one after the other, each starting with reset(),
\* obtain their stand-alone query strings.  (The witness is the other half:
\* an interleaving of the two sessions' calls in which a session obtains
\* something else.)
C24_SerialSessionsAgree ==
    sess.serial =>
        \A s \in 1..Len(sess.pc) : sess.pc[s] = Ended => sess.out[s] = StandAlone(s)

\* Interleaved sessions, both ended: all four comparisons were pending on
\* the node when the sessions combined, and both got the
\* inconsistent-operators error.
C24_Witness ==
    /\ ~sess.serial
    /\ sess.pc = <<Ended, Ended>>
    /\ sess.out = <<(<<"ValueError">>), (<<"ValueError">>)>>

\* C25: reset() creates and removes no node, leaves the name and the
\* classes of every node as they were, and leaves the nodes built by
\* combinations of two different nodes (which have no field name and are
\* not registered) unchanged in state, cache and classes.
C25_ResetFrame ==
    [][last'.op = "reset" =>
          /\ Len(nodes') = Len(nodes)
          /\ \A n \in 1..Len(nodes) :
                /\ nodes'[n].classes = nodes[n].classes
                /\ nodes'[n].name = nodes[n].name
                /\ nodes[n].name = None => nodes'[n] = nodes[n]
                /\ nodes[n].name # None => nodes[n].name \in {all_keywords'[i] : i \in 1..Len(all_keywords')}]_vars

\* After reset(): a composite of both fields still holds its entry and its
\* two classes while both fields are empty.
C25_Witness ==
    /\ last.op = "reset"
    /\ \E c \in 1..Len(nodes) :
          /\ nodes[c].name = None
          /\ Len(nodes[c].state) = 1
          /\ nodes[c].classes = {Egap, Egap_type}
    /\ \A n \in 1..Len(nodes) :
          nodes[n].name # None => nodes[n].state = << >> /\ nodes[n].cache = << >>

\* C26: a combination of two different nodes of which one does not reduce
\* to one resolved string fails with the error of the assertions on the
\* resolved strings (AssertionError).
C26_AssertionOnUnresolved ==
    [][CrossStep /\ (~Reducible(nodes[last'.self]) \/ ~Reducible(nodes[last'.other])) =>
          last'.err = "AssertionError"]_vars

\* sub in s, for strings
IsSubstring(sub, s) ==
    \E i \in 0..(Len(s) - Len(sub)) : SubSeq(s, i + 1, i + Len(sub)) = sub

\* C27: after a successful combination of a node with itself, every string
\* the node held in state or cache before the call is a substring of one of
\* its state entries.
C27_NothingDiscarded ==
    [][\A n \in 1..Len(nodes) :
          SelfStep /\ last'.self = n /\ last'.err = "none" =>
             \A i \in 1..Len(nodes[n].state \o nodes[n].cache) :
                \E j \in 1..Len(nodes'[n].state) :
                   IsSubstring((nodes[n].state \o nodes[n].cache)[i], nodes'[n].state[j])]_vars

\* C28: when str() of a node returns a query string, not the field name,
\* every entry the node holds in state and cache is a substring of it.
C28_StringHoldsAll ==
    last.op = "str" /\ last.err = "none" /\ last.res # nodes[last.self].name =>
        \A i \in 1..Len(nodes[last.self].state \o nodes[last.self].cache) :
            IsSubstring((nodes[last.self].state \o nodes[last.self].cache)[i], last.res)

\* A node as a combination of two different nodes returns it.
AsReturned(k) == k.name = None /\ Len(k.state) = 1 /\ k.cache = << >>

\* C29: the node a successful combination of two different nodes returns
\* has exactly one state entry and an empty cache and stringifies to that
\* entry; and a combination of two different nodes succeeds when one operand
\* is such a node and the other reduces to one resolved string, be it a
\* prototype or another such node.
C29_CrossClosed ==
    [][CrossStep =>
          /\ last'.err = "none" =>
                /\ AsReturned(nodes'[last'.res])
                /\ Str(nodes'[last'.res]) = nodes'[last'.res].state[1]
          /\ /\ AsReturned(nodes[last'.self]) \/ AsReturned(nodes[last'.other])
             /\ Reducible(nodes[last'.self]) /\ Reducible(nodes[last'.other])
             => last'.err = "none"]_vars

\* A composite combined with another composite: "(...),(...)".
C29_Witness ==
    /\ AfterCross /\ last.err = "none"
    /\ AsReturned(nodes[last.self]) /\ AsReturned(nodes[last.other])
    /\ AsReturned(nodes[last.res])
    /\ Str(nodes[last.res]) =
          InParens(Str(nodes[last.self])) \o <<TokenOf(last.op)>>
          \o InParens(Str(nodes[last.other]))

====
